---- MODULE Spec2Model ----
(***************************************************************************)
(* Aqua Clock regulation core: one ColumnManager (ColumnManager.h) driving *)
(* a feed valve and a drain valve from a range reading and a setpoint, and *)
(* the shared fault bitmap (faults.h) it reads; the TankManager            *)
(* (TankManager.h) driving the feed pump from two level switches; and one  *)
(* RangeUtil (RangeUtil.h) filtering the readings of a range sensor.       *)
(*                                                                         *)
(* Time is in milliseconds.  elapsedMillis counters are plain integers     *)
(* that the Tick action advances between calls; a call itself takes no     *)
(* time.                                                                   *)
(***************************************************************************)
EXTENDS Integers, Sequences, FiniteSets, TLC

(***************************************************************************)
(* Bounds of the model                                                     *)
(***************************************************************************)
\* largest value the elapsedMillis counter is advanced to
MaxTime == 61000
\* the two amounts of time that may pass between two calls
TickShort == 1000
TickLong == 30000
\* short steps are taken only while the counter is below this value
FineWindow == 3000

TickSteps == {TickShort, TickLong}

\* readings and setpoints handed to Update
ElevationInputs == {155, 301, 40000}
SetpointInputs == {40, 150, 400}
\* durations handed to Manual_Fill / Manual_Drain
ManualPeriods == {0, 2000}

(***************************************************************************)
(* faults.h                                                                *)
(***************************************************************************)
FAULT_VL53L1X_SENSOR_1_INIT_FAIL == 4
FAULT_VL53L1X_SENSOR_2_INIT_FAIL == 5
FAULT_VL53L1X_SENSOR_3_INIT_FAIL == 6
FAULT_VL53L1X_UNKNOWN_INIT_FAIL == 7
FAULT_VL53L1X_SENSOR_1_TIMEOUT == 8
FAULT_VL53L1X_SENSOR_2_TIMEOUT == 9
FAULT_VL53L1X_SENSOR_3_TIMEOUT == 10
FAULT_VL53L1X_UNKNOWN_TIMEOUT == 11
FAULT_SX1509_IO_EXPANDER_INIT_FAIL == 15
FAULT_TANK_FILL_TIMEOUT == 16
FAULT_TANK_LEVEL_SENSE_FAIL == 17
FAULT_MAX_INDEX == 19

\* (uint32_t)1 << n, for the bit numbers of SYSTEM_FAULT_T
Shift1[n \in 0..FAULT_MAX_INDEX] == IF n = 0 THEN 1 ELSE 2 * Shift1[n - 1]

Pow2(n) == Shift1[n]

\* #define FAULT_ACTIVE(x) ((system_faults & (uint32_t)1 << x) != 0)
FaultActiveIn(faults, x) == (faults \div Pow2(x)) % 2 = 1

\* #define FAULT_SET(x) system_faults = (system_faults | ((uint32_t)1 << x))
FaultSetIn(faults, x) == IF FaultActiveIn(faults, x) THEN faults ELSE faults + Pow2(x)

\* variant: clearing an inactive fault activates it
FaultClearIn_Toggles(faults, x) ==
  IF FaultActiveIn(faults, x) THEN faults - Pow2(x) ELSE faults + Pow2(x)

\* #define FAULT_CLEAR(x) system_faults = (system_faults &= ~((uint32_t)1 << x))
FaultClearIn(faults, x) == IF FaultActiveIn(faults, x) THEN faults - Pow2(x) ELSE faults

\* the fault numbers of SYSTEM_FAULT_T
FaultBits == 0..(FAULT_MAX_INDEX - 1)

\* bitmaps the macros are applied to: no fault, every fault, every other
\* fault, and two boot faults
FaultBitmaps ==
  {0, Pow2(FAULT_MAX_INDEX) - 1, 174762,
   Pow2(FAULT_SX1509_IO_EXPANDER_INIT_FAIL) + Pow2(FAULT_VL53L1X_SENSOR_1_INIT_FAIL)}

(***************************************************************************)
(* ColumnManager.h: types                                                  *)
(***************************************************************************)
COLUMN_IDLE == "COLUMN_IDLE"
COLUMN_DRAIN_ACTIVE == "COLUMN_DRAIN_ACTIVE"
COLUMN_DRAIN_SETTLE == "COLUMN_DRAIN_SETTLE"
COLUMN_FILL_ACTIVE == "COLUMN_FILL_ACTIVE"
COLUMN_FILL_SETTLE == "COLUMN_FILL_SETTLE"
COLUMN_MANUAL_DRAIN == "COLUMN_MANUAL_DRAIN"
COLUMN_MANUAL_FILL == "COLUMN_MANUAL_FILL"
COLUMN_ERROR_STATE == "COLUMN_ERROR_STATE"

COLUMN_STATE_TYPE_T ==
  {COLUMN_IDLE, COLUMN_DRAIN_ACTIVE, COLUMN_DRAIN_SETTLE, COLUMN_FILL_ACTIVE,
   COLUMN_FILL_SETTLE, COLUMN_MANUAL_DRAIN, COLUMN_MANUAL_FILL, COLUMN_ERROR_STATE}

CONTROL_ERROR_DEADBAND == "CONTROL_ERROR_DEADBAND"
CONTROL_ERROR_POSITIVE == "CONTROL_ERROR_POSITIVE"
CONTROL_ERROR_NEGATIVE == "CONTROL_ERROR_NEGATIVE"

CONTROL_ERROR_STATE_TYPE_T ==
  {CONTROL_ERROR_DEADBAND, CONTROL_ERROR_POSITIVE, CONTROL_ERROR_NEGATIVE}

(***************************************************************************)
(* ColumnManager.h: fields with a fixed initial value and no setter        *)
(***************************************************************************)
setpoint_deadband == 4
drain_dwell_period == 1000
fill_dwell_period == 1000
max_column_drain_period == 60000
max_column_fill_period == 60000

\* values the fields hold before the first Update / Manual_* call
InitialSetpointMM == 150
InitialElevationMM == 150
InitialManualPeriod == 2000

\* (lower, upper) elevation limits handed to the constructor
ElevationLimits == {<<50, 305>>}

VARIABLES
  system_faults,              \* uint32_t system_faults (fault bitmap)
  elevation_lower_limit,      \* _elevation_lower_limit
  elevation_upper_limit,      \* _elevation_upper_limit
  setpoint_mm,                \* _setpoint_mm
  elevation_mm,               \* _elevation_mm
  regulator_enable,           \* _regulator_enable
  state,                      \* _state
  time_in_current_state,      \* _time_in_current_state
  manual_drain_period,        \* _manual_drain_period
  manual_fill_period,         \* _manual_fill_period
  request_manual_fill,        \* _request_manual_fill
  request_manual_drain,       \* _request_manual_drain
  control_error_state,        \* _control_error_state
  feed_valve,                 \* level last written to the feed valve pin (TRUE = HIGH)
  drain_valve,                \* level last written to the drain valve pin (TRUE = HIGH)
  busy,                       \* value returned by the last Update
  update_setpoint_arg,        \* setpoint_mm argument of the last Update
  last_op,                    \* the operation that ran last
  pre                         \* fields as they were when the last operation started

\* the fields and outputs of the ColumnManager
column_vars ==
  <<elevation_lower_limit, elevation_upper_limit, setpoint_mm,
    elevation_mm, regulator_enable, state, time_in_current_state,
    manual_drain_period, manual_fill_period, request_manual_fill,
    request_manual_drain, control_error_state, feed_valve, drain_valve, busy,
    update_setpoint_arg, last_op, pre>>

\* the fields and outputs of the TankManager
VARIABLES
  tank_above_high,            \* _feed_tank_level_above_high
  tank_above_low,             \* _feed_tank_level_above_low
  pump_active,                \* _pump_active, the level last written to the pump pin
  tank_enable,                \* _enable
  tank_state,                 \* _state
  tank_time_in_current_state, \* _time_in_current_state
  tank_time_since_last_update,\* _time_since_last_update
  tank_request_manual_fill,   \* _request_manual_fill
  tank_manual_fill_period,    \* _manual_fill_period
  tank_ret,                   \* value returned by the last TankManager::Update
  tank_last_op,               \* the TankManager operation that ran last
  tank_pre                    \* fields as they were when that operation started

tank_vars ==
  <<tank_above_high, tank_above_low, pump_active, tank_enable, tank_state,
    tank_time_in_current_state, tank_time_since_last_update,
    tank_request_manual_fill, tank_manual_fill_period, tank_ret,
    tank_last_op, tank_pre>>

\* the fields and outputs of the RangeUtil
VARIABLES
  sensor_num,                 \* _sensor_num
  sensor_state,               \* _sensor_state
  time_since_last_read_msec,  \* _time_since_last_read_msec
  range_history,              \* _range_history[0..2]
  median_index,               \* _median_index
  range_readings,             \* readings taken so far, counted up to HISTORY_SIZE
  range_ret,                  \* value returned by the last Startup
  range_consumed,             \* the last Update read a value from the device
  timeout_raised,             \* an Update has set the timeout fault since the last reading
  fault_arg,                  \* argument of the last FAULT_SET / FAULT_CLEAR applied from outside
  fault_ops,                  \* number of FAULT_SET / FAULT_CLEAR applied from outside
  range_last_op,              \* the RangeUtil operation or fault macro that ran last
  range_pre                   \* fields as they were when that operation started

range_vars ==
  <<sensor_num, sensor_state, time_since_last_read_msec, range_history,
    median_index, range_readings, range_ret, range_consumed, timeout_raised,
    fault_arg, fault_ops, range_last_op, range_pre>>

vars == <<system_faults, column_vars, tank_vars, range_vars>>

FAULT_ACTIVE(x) == FaultActiveIn(system_faults, x)

\* snapshot taken at the start of every operation
Snapshot ==
  [state |-> state,
   time |-> time_in_current_state,
   request_manual_fill |-> request_manual_fill,
   request_manual_drain |-> request_manual_drain,
   feed_valve |-> feed_valve,
   drain_valve |-> drain_valve]

(***************************************************************************)
(* ColumnManager.h: actuator helpers.  They work on a record m holding the *)
(* fields Update changes as it runs: state, time, feed, drain, busy.       *)
(***************************************************************************)
start_filling_KeepsDrain(m) ==
  [m EXCEPT !.feed = TRUE]

start_filling(m) ==
  [m EXCEPT !.feed = TRUE, !.drain = FALSE]

start_draining(m) ==
  IF ~FAULT_ACTIVE(FAULT_SX1509_IO_EXPANDER_INIT_FAIL)
    THEN [m EXCEPT !.feed = FALSE, !.drain = TRUE]
    ELSE m

stop_flows(m) ==
  IF ~FAULT_ACTIVE(FAULT_SX1509_IO_EXPANDER_INIT_FAIL)
    THEN [m EXCEPT !.feed = FALSE, !.drain = FALSE]
    ELSE m

(***************************************************************************)
(* ColumnManager.h: control_loop_update                                    *)
(***************************************************************************)
\* conversion of an int to int16_t
ToInt16(x) ==
  LET u == x % 65536 IN IF u >= 32768 THEN u - 65536 ELSE u

Abs(x) == IF x > 0 THEN x ELSE -x

control_loop_update_Reversed(elevation, setpoint) ==
  LET delta == ToInt16(elevation - setpoint) IN
    IF Abs(delta) <= setpoint_deadband THEN CONTROL_ERROR_DEADBAND
    ELSE IF delta < 0 THEN CONTROL_ERROR_POSITIVE
    ELSE CONTROL_ERROR_NEGATIVE

control_loop_update(elevation, setpoint) ==
  LET delta == ToInt16(elevation - setpoint) IN
    IF Abs(delta) <= setpoint_deadband THEN CONTROL_ERROR_DEADBAND
    ELSE IF delta > 0 THEN CONTROL_ERROR_POSITIVE
    ELSE CONTROL_ERROR_NEGATIVE

(***************************************************************************)
(* ColumnManager.h: Update                                                 *)
(***************************************************************************)
ClampSetpoint_NoUpperLimit(sp) ==
  IF sp < elevation_lower_limit THEN elevation_lower_limit ELSE sp

ClampSetpoint(sp) ==
  LET s1 == IF sp < elevation_lower_limit THEN elevation_lower_limit ELSE sp IN
    IF s1 > elevation_upper_limit THEN elevation_upper_limit ELSE s1

ManualFillRequest_KeepsTimer(m) ==
  IF request_manual_fill
    THEN [m EXCEPT !.state = COLUMN_MANUAL_FILL]
    ELSE m

ManualFillRequest(m) ==
  IF request_manual_fill
    THEN [m EXCEPT !.state = COLUMN_MANUAL_FILL, !.time = 0]
    ELSE m

\* variant: a drain request gives way to a fill request made for the same Update
ManualDrainRequest_YieldsToFill(m) ==
  IF request_manual_drain /\ ~request_manual_fill
    THEN [m EXCEPT !.state = COLUMN_MANUAL_DRAIN, !.time = 0]
    ELSE m

ManualDrainRequest(m) ==
  IF request_manual_drain
    THEN [m EXCEPT !.state = COLUMN_MANUAL_DRAIN, !.time = 0]
    ELSE m

CaseIdle(m, err) ==
  LET s == stop_flows(m) IN
    IF regulator_enable
      THEN IF err = CONTROL_ERROR_POSITIVE
             THEN [s EXCEPT !.state = COLUMN_FILL_ACTIVE, !.time = 0]
           ELSE IF err = CONTROL_ERROR_NEGATIVE
             THEN [s EXCEPT !.state = COLUMN_DRAIN_ACTIVE, !.time = 0]
           ELSE s
      ELSE s

CaseDrainActive(m, err) ==
  IF ~regulator_enable
    THEN [m EXCEPT !.state = COLUMN_DRAIN_SETTLE, !.time = 0]
  ELSE IF err # CONTROL_ERROR_NEGATIVE
    THEN [stop_flows(m) EXCEPT !.state = COLUMN_DRAIN_SETTLE, !.time = 0]
  ELSE IF m.time >= max_column_drain_period
    THEN [stop_flows(m) EXCEPT !.state = COLUMN_ERROR_STATE, !.time = 0]
  ELSE [start_draining(m) EXCEPT !.busy = TRUE]

\* variant: the drain dwell never ends
CaseDrainSettle_NeverEnds(m) == stop_flows(m)

CaseDrainSettle(m) ==
  LET s == stop_flows(m) IN
    IF s.time >= drain_dwell_period
      THEN [s EXCEPT !.state = COLUMN_IDLE, !.time = 0]
      ELSE s

CaseFillActive(m, err) ==
  IF ~regulator_enable
    THEN [m EXCEPT !.state = COLUMN_FILL_SETTLE, !.time = 0]
  ELSE IF err # CONTROL_ERROR_POSITIVE
    THEN [stop_flows(m) EXCEPT !.state = COLUMN_FILL_SETTLE, !.time = 0]
  ELSE IF m.time >= max_column_fill_period
    THEN [stop_flows(m) EXCEPT !.state = COLUMN_ERROR_STATE, !.time = 0]
  ELSE [start_filling(m) EXCEPT !.busy = TRUE]

CaseFillSettle(m) ==
  LET s == stop_flows(m) IN
    IF s.time >= fill_dwell_period
      THEN [s EXCEPT !.state = COLUMN_IDLE, !.time = 0]
      ELSE s

CaseManualDrain(m) ==
  LET s == [start_draining(m) EXCEPT !.busy = TRUE] IN
    IF s.time >= manual_drain_period
      THEN [s EXCEPT !.state = COLUMN_IDLE]
      ELSE s

CaseManualFill(m) ==
  LET s == [start_filling(m) EXCEPT !.busy = TRUE] IN
    IF s.time >= manual_fill_period
      THEN [s EXCEPT !.state = COLUMN_IDLE]
      ELSE s

CaseErrorState(m) == stop_flows(m)

StateMachine(m, err) ==
  CASE m.state = COLUMN_IDLE -> CaseIdle(m, err)
    [] m.state = COLUMN_DRAIN_ACTIVE -> CaseDrainActive(m, err)
    [] m.state = COLUMN_DRAIN_SETTLE -> CaseDrainSettle(m)
    [] m.state = COLUMN_FILL_ACTIVE -> CaseFillActive(m, err)
    [] m.state = COLUMN_FILL_SETTLE -> CaseFillSettle(m)
    [] m.state = COLUMN_MANUAL_DRAIN -> CaseManualDrain(m)
    [] m.state = COLUMN_MANUAL_FILL -> CaseManualFill(m)
    [] m.state = COLUMN_ERROR_STATE -> CaseErrorState(m)

Update(current_elevation_mm, new_setpoint_mm) ==
  /\ UNCHANGED <<tank_vars, range_vars>>
  /\ LET sp == ClampSetpoint(new_setpoint_mm)
         m0 == [state |-> state, time |-> time_in_current_state,
                feed |-> feed_valve, drain |-> drain_valve, busy |-> FALSE]
         m1 == ManualDrainRequest(ManualFillRequest(m0))
         err == control_loop_update(current_elevation_mm, sp)
     IN \E m2 \in {StateMachine(m1, err)} :
          /\ elevation_mm' = current_elevation_mm
          /\ setpoint_mm' = sp
          /\ request_manual_fill' = FALSE
          /\ request_manual_drain' = FALSE
          /\ control_error_state' = err
          /\ state' = m2.state
          /\ time_in_current_state' = m2.time
          /\ feed_valve' = m2.feed
          /\ drain_valve' = m2.drain
          /\ busy' = m2.busy
          /\ update_setpoint_arg' = new_setpoint_mm
          /\ last_op' = "Update"
          /\ pre' = Snapshot
          /\ UNCHANGED <<system_faults, elevation_lower_limit, elevation_upper_limit,
                         regulator_enable, manual_drain_period, manual_fill_period>>

(***************************************************************************)
(* ColumnManager.h: the other public operations                            *)
(***************************************************************************)
Set_Regulator_Enable(enable) ==
  /\ regulator_enable' = enable
  /\ last_op' = "Set_Regulator_Enable"
  /\ pre' = Snapshot
  /\ UNCHANGED <<system_faults, elevation_lower_limit, elevation_upper_limit,
                 setpoint_mm, elevation_mm, state, time_in_current_state,
                 manual_drain_period, manual_fill_period, request_manual_fill,
                 request_manual_drain, control_error_state, feed_valve,
                 drain_valve, busy, update_setpoint_arg>>
  /\ UNCHANGED <<tank_vars, range_vars>>

Manual_Drain(period) ==
  /\ manual_drain_period' = period
  /\ request_manual_drain' = TRUE
  /\ last_op' = "Manual_Drain"
  /\ pre' = Snapshot
  /\ UNCHANGED <<system_faults, elevation_lower_limit, elevation_upper_limit,
                 setpoint_mm, elevation_mm, regulator_enable, state,
                 time_in_current_state, manual_fill_period, request_manual_fill,
                 control_error_state, feed_valve, drain_valve, busy,
                 update_setpoint_arg>>
  /\ UNCHANGED <<tank_vars, range_vars>>

Manual_Fill(period) ==
  /\ manual_fill_period' = period
  /\ request_manual_fill' = TRUE
  /\ last_op' = "Manual_Fill"
  /\ pre' = Snapshot
  /\ UNCHANGED <<system_faults, elevation_lower_limit, elevation_upper_limit,
                 setpoint_mm, elevation_mm, regulator_enable, state,
                 time_in_current_state, manual_drain_period, request_manual_drain,
                 control_error_state, feed_valve, drain_valve, busy,
                 update_setpoint_arg>>
  /\ UNCHANGED <<tank_vars, range_vars>>

(***************************************************************************)
(* elapsedMillis: time passing between two calls                           *)
(***************************************************************************)
Tick(dt) ==
  /\ time_in_current_state + dt <= MaxTime
  /\ dt = TickShort => time_in_current_state < FineWindow
  /\ time_in_current_state' = time_in_current_state + dt
  /\ last_op' = "Tick"
  /\ pre' = Snapshot
  /\ UNCHANGED <<system_faults, elevation_lower_limit, elevation_upper_limit,
                 setpoint_mm, elevation_mm, regulator_enable, state,
                 manual_drain_period, manual_fill_period, request_manual_fill,
                 request_manual_drain, control_error_state, feed_valve,
                 drain_valve, busy, update_setpoint_arg>>
  /\ UNCHANGED <<tank_vars, range_vars>>

(***************************************************************************)
(* TankManager.h: types and fields with a fixed value                      *)
(***************************************************************************)
TANK_IDLE == "TANK_IDLE"
TANK_FILL_ACTIVE == "TANK_FILL_ACTIVE"
TANK_FILL_SETTLE == "TANK_FILL_SETTLE"
TANK_MANUAL_FILL == "TANK_MANUAL_FILL"
TANK_FILL_TIMEOUT_FAULT == "TANK_FILL_TIMEOUT_FAULT"

TANK_STATE_TYPE_T ==
  {TANK_IDLE, TANK_FILL_ACTIVE, TANK_FILL_SETTLE, TANK_MANUAL_FILL,
   TANK_FILL_TIMEOUT_FAULT}

TANK_UPDATE_PERIOD_MSEC == 10
post_pump_settle_period == 1000
MAX_PUMP_FILL_TIME_MSEC == 30000

\* value of _manual_fill_period before the first Manual_Fill call
InitialTankManualPeriod == 2000

(***************************************************************************)
(* Bounds of the TankManager model                                         *)
(***************************************************************************)
\* largest value the time-in-state counter is advanced to
TankMaxTime == 31000
\* the amounts of time that may pass between two calls; the fine step is half
\* the update period, so that calls fall before, at and after the period
TankTickFine == TANK_UPDATE_PERIOD_MSEC \div 2
TankTickShort == 1000
TankTickLong == 15000
\* fine (short) steps are taken only while time-in-state is below this value
TankFineWindow == TANK_UPDATE_PERIOD_MSEC
TankShortWindow == 2000

TankTickSteps == {TankTickFine, TankTickShort, TankTickLong}

\* durations handed to TankManager::Manual_Fill
TankManualPeriods == {150, 2000}

\* snapshot taken at the start of every TankManager operation
TankSnapshot ==
  [state |-> tank_state,
   time |-> tank_time_in_current_state,
   since |-> tank_time_since_last_update,
   request |-> tank_request_manual_fill,
   pump |-> pump_active,
   faults |-> system_faults]

(***************************************************************************)
(* TankManager.h: actuator helpers.  They work on a record t holding what  *)
(* Update changes as it runs: state, time, request, pump, faults, and the  *)
(* two level readings high and low taken at the start of the call.         *)
(***************************************************************************)
start_pumping(t) == [t EXCEPT !.pump = TRUE]

stop_pumping(t) == [t EXCEPT !.pump = FALSE]

(***************************************************************************)
(* TankManager.h: Update                                                   *)
(***************************************************************************)
\* variant: the fault is raised whenever the low switch reads dry
LevelSenseCheck_LowOnly(faults, high, low) ==
  IF ~low
    THEN FaultSetIn(faults, FAULT_TANK_LEVEL_SENSE_FAIL)
    ELSE faults

\* the contradiction check at the start of Update
LevelSenseCheck(faults, high, low) ==
  IF ~low /\ high
    THEN FaultSetIn(faults, FAULT_TANK_LEVEL_SENSE_FAIL)
    ELSE faults

\* variant: a call at exactly the update period is cut short too
RateLimited_Inclusive(since) == since <= TANK_UPDATE_PERIOD_MSEC

\* the rate-limit test
RateLimited(since) == since < TANK_UPDATE_PERIOD_MSEC

\* variant: a pending manual request is not consumed
TankCaseIdle_KeepsRequest(t) ==
  LET s == stop_pumping(t) IN
    IF s.request
      THEN [s EXCEPT !.state = TANK_MANUAL_FILL, !.time = 0]
    ELSE IF tank_enable
      THEN IF ~s.low
             THEN [s EXCEPT !.state = TANK_FILL_ACTIVE, !.time = 0]
             ELSE s
    ELSE s

TankCaseIdle(t) ==
  LET s == stop_pumping(t) IN
    IF s.request
      THEN [s EXCEPT !.request = FALSE, !.state = TANK_MANUAL_FILL, !.time = 0]
    ELSE IF tank_enable
      THEN IF ~s.low
             THEN [s EXCEPT !.state = TANK_FILL_ACTIVE, !.time = 0]
             ELSE s
    ELSE s

\* variant: the fill ends as soon as the low switch is wet
TankCaseFillActive_StopsAtLow(t) ==
  LET t1 == IF ~tank_enable
              THEN [t EXCEPT !.state = TANK_IDLE, !.time = 0]
              ELSE t
      t2 == start_pumping(t1)
      t3 == IF t2.low
              THEN [stop_pumping(t2) EXCEPT !.state = TANK_FILL_SETTLE, !.time = 0]
              ELSE t2
  IN IF t3.time >= MAX_PUMP_FILL_TIME_MSEC
       THEN [t3 EXCEPT !.faults = FaultSetIn(@, FAULT_TANK_FILL_TIMEOUT)]
       ELSE t3

TankCaseFillActive(t) ==
  LET t1 == IF ~tank_enable
              THEN [t EXCEPT !.state = TANK_IDLE, !.time = 0]
              ELSE t
      t2 == start_pumping(t1)
      t3 == IF t2.high
              THEN [stop_pumping(t2) EXCEPT !.state = TANK_FILL_SETTLE, !.time = 0]
              ELSE t2
  IN IF t3.time >= MAX_PUMP_FILL_TIME_MSEC
       THEN [t3 EXCEPT !.faults = FaultSetIn(@, FAULT_TANK_FILL_TIMEOUT)]
       ELSE t3

\* variant: the settle state is left at the first step, whatever the time
TankCaseFillSettle_NoWait(t) ==
  [stop_pumping(t) EXCEPT !.state = TANK_IDLE, !.time = 0]

TankCaseFillSettle(t) ==
  LET t1 == IF ~tank_enable
              THEN [t EXCEPT !.state = TANK_IDLE, !.time = 0]
              ELSE t
      t2 == stop_pumping(t1)
  IN IF t2.time >= post_pump_settle_period
       THEN [t2 EXCEPT !.state = TANK_IDLE, !.time = 0]
       ELSE t2

\* variant: a request made during a manual fill is discarded
TankCaseManualFill_ClearsRequest(t) ==
  LET s == [start_pumping(t) EXCEPT !.request = FALSE] IN
    IF s.time >= tank_manual_fill_period
      THEN [s EXCEPT !.state = TANK_IDLE, !.time = 0]
      ELSE s

TankCaseManualFill(t) ==
  LET s == start_pumping(t) IN
    IF s.time >= tank_manual_fill_period
      THEN [s EXCEPT !.state = TANK_IDLE, !.time = 0]
      ELSE s

TankCaseFillTimeoutFault(t) == t

TankStateMachine(t) ==
  CASE t.state = TANK_IDLE -> TankCaseIdle(t)
    [] t.state = TANK_FILL_ACTIVE -> TankCaseFillActive(t)
    [] t.state = TANK_FILL_SETTLE -> TankCaseFillSettle(t)
    [] t.state = TANK_MANUAL_FILL -> TankCaseManualFill(t)
    [] t.state = TANK_FILL_TIMEOUT_FAULT -> TankCaseFillTimeoutFault(t)

\* high, low: what update_feed_tank_level_status reads from the two switches
Tank_Update(high, low) ==
  /\ UNCHANGED <<column_vars, range_vars>>
  /\ LET t0 == [state |-> tank_state, time |-> tank_time_in_current_state,
                request |-> tank_request_manual_fill, pump |-> pump_active,
                faults |-> LevelSenseCheck(system_faults, high, low),
                high |-> high, low |-> low]
     IN /\ tank_above_high' = high
        /\ tank_above_low' = low
        /\ tank_last_op' = "Update"
        /\ tank_pre' = TankSnapshot
        /\ UNCHANGED <<tank_enable, tank_manual_fill_period>>
        /\ IF RateLimited(tank_time_since_last_update)
             THEN /\ tank_ret' = TRUE
                  /\ system_faults' = t0.faults
                  /\ UNCHANGED <<pump_active, tank_state, tank_time_in_current_state,
                                 tank_time_since_last_update,
                                 tank_request_manual_fill>>
             ELSE \E t \in {TankStateMachine(t0)} :
                    /\ tank_time_since_last_update' = 0
                    /\ tank_state' = t.state
                    /\ tank_time_in_current_state' = t.time
                    /\ tank_request_manual_fill' = t.request
                    /\ pump_active' = t.pump
                    /\ system_faults' = t.faults
                    /\ tank_ret' = FALSE

(***************************************************************************)
(* TankManager.h: the other public operations                              *)
(***************************************************************************)
Tank_Set_Regulator_Enable(enable) ==
  /\ tank_enable' = enable
  /\ tank_last_op' = "Set_Regulator_Enable"
  /\ tank_pre' = TankSnapshot
  /\ UNCHANGED <<system_faults, tank_above_high, tank_above_low, pump_active,
                 tank_state, tank_time_in_current_state,
                 tank_time_since_last_update, tank_request_manual_fill,
                 tank_manual_fill_period, tank_ret>>
  /\ UNCHANGED <<column_vars, range_vars>>

Tank_Manual_Fill(period) ==
  /\ tank_manual_fill_period' = period
  /\ tank_request_manual_fill' = TRUE
  /\ tank_last_op' = "Manual_Fill"
  /\ tank_pre' = TankSnapshot
  /\ UNCHANGED <<system_faults, tank_above_high, tank_above_low, pump_active,
                 tank_enable, tank_state, tank_time_in_current_state,
                 tank_time_since_last_update, tank_ret>>
  /\ UNCHANGED <<column_vars, range_vars>>

\* both elapsedMillis counters of the TankManager advance together
Tank_Tick(dt) ==
  /\ tank_time_in_current_state + dt <= TankMaxTime
  /\ dt = TankTickFine => tank_time_in_current_state < TankFineWindow
  /\ dt = TankTickShort => tank_time_in_current_state < TankShortWindow
  /\ tank_time_in_current_state' = tank_time_in_current_state + dt
  /\ tank_time_since_last_update' = tank_time_since_last_update + dt
  /\ tank_last_op' = "Tick"
  /\ tank_pre' = TankSnapshot
  /\ UNCHANGED <<system_faults, tank_above_high, tank_above_low, pump_active,
                 tank_enable, tank_state, tank_request_manual_fill,
                 tank_manual_fill_period, tank_ret>>
  /\ UNCHANGED <<column_vars, range_vars>>

\* field initialisers and constructor of TankManager (ends with stop_pumping)
TankConstructed ==
  /\ tank_above_high = FALSE
  /\ tank_above_low = FALSE
  /\ pump_active = FALSE
  /\ tank_enable = FALSE
  /\ tank_state = TANK_IDLE
  /\ tank_time_in_current_state = 0
  /\ tank_time_since_last_update = 0
  /\ tank_request_manual_fill = FALSE
  /\ tank_manual_fill_period = InitialTankManualPeriod
  /\ tank_ret = FALSE
  /\ tank_last_op = "TankManager"
  /\ tank_pre = [state |-> TANK_IDLE, time |-> 0, since |-> 0,
                 request |-> FALSE, pump |-> FALSE, faults |-> 0]

(***************************************************************************)
(* RangeUtil.h: types and fields with a fixed value                        *)
(***************************************************************************)
RANGE_SENSOR_UNINITIALIZED == "RANGE_SENSOR_UNINITIALIZED"
RANGE_SENSOR_INIT_ERROR == "RANGE_SENSOR_INIT_ERROR"
RANGE_SENSOR_WORKING == "RANGE_SENSOR_WORKING"
RANGE_SENSOR_TIMEOUT == "RANGE_SENSOR_TIMEOUT"

RANGE_SENSOR_STATE_T ==
  {RANGE_SENSOR_UNINITIALIZED, RANGE_SENSOR_INIT_ERROR, RANGE_SENSOR_WORKING,
   RANGE_SENSOR_TIMEOUT}

READ_TIMEOUT_MSEC == 200
HISTORY_SIZE == 3
UINT16_MAX == 65535

(***************************************************************************)
(* Bounds of the RangeUtil model                                           *)
(***************************************************************************)
\* largest value the time-since-last-read counter is advanced to
RangeMaxTime == 300
\* the amount of time that passes between two calls: half the timeout window
RangeTick == READ_TIMEOUT_MSEC \div 2
\* how many times a fault macro is applied from outside in one behaviour
MaxFaultOps == 1

\* values the sensor delivers
Readings == {0, 10, UINT16_MAX}
\* sensor identities handed to the constructor; 7 stands for any other number
SensorNums == {1, 2, 3, 7}
\* _range_history has no initialiser: what it holds before the first reading
\* depends on where the object lives (zero in static storage, anything else
\* otherwise)
UninitHistories ==
  {[i \in 0..(HISTORY_SIZE - 1) |-> 0],
   [i \in 0..(HISTORY_SIZE - 1) |-> IF i = 1 THEN UINT16_MAX ELSE 10]}

\* snapshot taken at the start of every RangeUtil operation
RangeSnapshot ==
  [state |-> sensor_state,
   time |-> time_since_last_read_msec,
   history |-> range_history,
   median |-> median_index,
   raised |-> timeout_raised,
   faults |-> system_faults]

(***************************************************************************)
(* RangeUtil.h: the fault of this sensor's identity                        *)
(***************************************************************************)
\* variant: every sensor reports the init failure of an unknown sensor
InitFailFault_AlwaysUnknown(num) == FAULT_VL53L1X_UNKNOWN_INIT_FAIL

InitFailFault(num) ==
  CASE num = 1 -> FAULT_VL53L1X_SENSOR_1_INIT_FAIL
    [] num = 2 -> FAULT_VL53L1X_SENSOR_2_INIT_FAIL
    [] num = 3 -> FAULT_VL53L1X_SENSOR_3_INIT_FAIL
    [] OTHER -> FAULT_VL53L1X_UNKNOWN_INIT_FAIL

\* variant: every sensor reports the timeout of an unknown sensor
TimeoutFault_AlwaysUnknown(num) == FAULT_VL53L1X_UNKNOWN_TIMEOUT

TimeoutFault(num) ==
  CASE num = 1 -> FAULT_VL53L1X_SENSOR_1_TIMEOUT
    [] num = 2 -> FAULT_VL53L1X_SENSOR_2_TIMEOUT
    [] num = 3 -> FAULT_VL53L1X_SENSOR_3_TIMEOUT
    [] OTHER -> FAULT_VL53L1X_UNKNOWN_TIMEOUT

(***************************************************************************)
(* RangeUtil.h: process_reading                                            *)
(***************************************************************************)
\* history after the new reading has been shifted in
ShiftIn(h, reading) ==
  [i \in 0..(HISTORY_SIZE - 1) |-> IF i = 0 THEN reading ELSE h[i - 1]]

\* the first loop, for the highest value: acc is <<max_range, max_range_index>>
RECURSIVE ScanMax(_, _, _)
ScanMax(h, i, acc) ==
  IF i >= HISTORY_SIZE THEN acc
  ELSE ScanMax(h, i + 1, IF h[i] > acc[1] THEN <<h[i], i>> ELSE acc)

\* the first loop, for the lowest value: acc is <<min_range, min_range_index>>
RECURSIVE ScanMin(_, _, _)
ScanMin(h, i, acc) ==
  IF i >= HISTORY_SIZE THEN acc
  ELSE ScanMin(h, i + 1, IF h[i] < acc[1] THEN <<h[i], i>> ELSE acc)

\* variant: the second loop skips only the index of the minimum
FindMedianIndex_IgnoresMax(h, old) ==
  LET min_range_index == ScanMin(h, 0, <<UINT16_MAX, 0>>)[2]
      found == {i \in 0..(HISTORY_SIZE - 1) : i # min_range_index}
  IN IF found = {} THEN old
     ELSE CHOOSE i \in found : \A j \in found : i <= j

\* the second loop: the first index that is neither that of the minimum nor
\* that of the maximum; old is kept when there is none
FindMedianIndex(h, old) ==
  LET max_range_index == ScanMax(h, 0, <<0, 0>>)[2]
      min_range_index == ScanMin(h, 0, <<UINT16_MAX, 0>>)[2]
      found == {i \in 0..(HISTORY_SIZE - 1) :
                  i # min_range_index /\ i # max_range_index}
  IN IF found = {} THEN old
     ELSE CHOOSE i \in found : \A j \in found : i <= j

\* r.history and r.median after process_reading(reading)
process_reading(r, reading) ==
  LET h == ShiftIn(r.history, reading)
  IN [r EXCEPT !.history = h, !.median = FindMedianIndex(h, r.median)]

\* Get_Newest_Reading and Get_Median_Reading
Get_Newest_Reading == range_history[0]

Get_Median_Reading == range_history[median_index]

(***************************************************************************)
(* RangeUtil.h: Startup and Update                                         *)
(***************************************************************************)
\* ok: what _device->init() returns
Range_Startup(ok) ==
  /\ UNCHANGED <<column_vars, tank_vars>>
  /\ range_last_op' = "Startup"
  /\ range_pre' = RangeSnapshot
  /\ range_ret' = ok
  /\ IF ~ok
       THEN /\ sensor_state' = RANGE_SENSOR_INIT_ERROR
            /\ system_faults' = FaultSetIn(system_faults, InitFailFault(sensor_num))
       ELSE /\ sensor_state' = RANGE_SENSOR_WORKING
            /\ UNCHANGED system_faults
  /\ UNCHANGED <<sensor_num, time_since_last_read_msec, range_history,
                 median_index, range_readings, range_consumed, timeout_raised,
                 fault_arg, fault_ops>>

\* variant: the timeout fires only after the window has been exceeded
ReadTimedOut_Strict(time) == time > READ_TIMEOUT_MSEC

\* whether the timeout test of Update fires
ReadTimedOut(time) == time >= READ_TIMEOUT_MSEC

\* variant: a fresh reading withdraws the timeout fault
TimeoutCheck_ClearsWhenFresh(faults, time, num) ==
  IF ReadTimedOut(time)
    THEN FaultSetIn(faults, TimeoutFault(num))
    ELSE IF time = 0 THEN FaultClearIn(faults, TimeoutFault(num)) ELSE faults

\* the fault bitmap after the "Detect device timeout" block of Update
TimeoutCheck(faults, time, num) ==
  IF ReadTimedOut(time)
    THEN FaultSetIn(faults, TimeoutFault(num))
    ELSE faults

\* ready: what _device->dataReady() returns; reading: what _device->read()
\* returns
Range_Update(ready, reading) ==
  /\ UNCHANGED <<column_vars, tank_vars>>
  /\ range_last_op' = "Update"
  /\ range_pre' = RangeSnapshot
  /\ UNCHANGED <<sensor_num, sensor_state, range_ret, fault_arg, fault_ops>>
  /\ IF sensor_state = RANGE_SENSOR_WORKING
       THEN LET r0 == [history |-> range_history, median |-> median_index]
                r1 == IF ready THEN process_reading(r0, reading) ELSE r0
                time == IF ready THEN 0 ELSE time_since_last_read_msec
            IN /\ range_history' = r1.history
               /\ median_index' = r1.median
               /\ time_since_last_read_msec' = time
               /\ range_consumed' = ready
               /\ range_readings' =
                    IF ready /\ range_readings < HISTORY_SIZE
                      THEN range_readings + 1
                      ELSE range_readings
               /\ system_faults' = TimeoutCheck(system_faults, time, sensor_num)
               /\ timeout_raised' =
                    IF ReadTimedOut(time) THEN TRUE
                    ELSE IF ready THEN FALSE
                    ELSE timeout_raised
       ELSE /\ range_consumed' = FALSE
            /\ UNCHANGED <<system_faults, range_history, median_index,
                           time_since_last_read_msec, range_readings,
                           timeout_raised>>

\* the elapsedMillis counter of the RangeUtil advances
Range_Tick(dt) ==
  /\ UNCHANGED <<column_vars, tank_vars>>
  /\ time_since_last_read_msec + dt <= RangeMaxTime
  /\ time_since_last_read_msec' = time_since_last_read_msec + dt
  /\ range_last_op' = "Tick"
  /\ range_pre' = RangeSnapshot
  /\ UNCHANGED <<system_faults, sensor_num, sensor_state, range_history,
                 median_index, range_readings, range_ret, range_consumed,
                 timeout_raised, fault_arg, fault_ops>>

(***************************************************************************)
(* faults.h: the macros applied to system_faults from outside the          *)
(* regulation core                                                         *)
(***************************************************************************)
FAULT_SET(x) ==
  /\ UNCHANGED <<column_vars, tank_vars>>
  /\ fault_ops < MaxFaultOps
  /\ system_faults' = FaultSetIn(system_faults, x)
  /\ fault_arg' = x
  /\ fault_ops' = fault_ops + 1
  /\ range_last_op' = "FAULT_SET"
  /\ range_pre' = RangeSnapshot
  /\ UNCHANGED <<sensor_num, sensor_state, time_since_last_read_msec,
                 range_history, median_index, range_readings, range_ret,
                 range_consumed, timeout_raised>>

FAULT_CLEAR(x) ==
  /\ UNCHANGED <<column_vars, tank_vars>>
  /\ fault_ops < MaxFaultOps
  /\ system_faults' = FaultClearIn(system_faults, x)
  /\ fault_arg' = x
  /\ fault_ops' = fault_ops + 1
  /\ range_last_op' = "FAULT_CLEAR"
  /\ range_pre' = RangeSnapshot
  /\ UNCHANGED <<sensor_num, sensor_state, time_since_last_read_msec,
                 range_history, median_index, range_readings, range_ret,
                 range_consumed, timeout_raised>>

\* field initialisers and constructor of RangeUtil, for sensor number num and
\* with h in the history array
RangeConstructed(num, h) ==
  /\ sensor_num = num
  /\ sensor_state = RANGE_SENSOR_UNINITIALIZED
  /\ time_since_last_read_msec = 0
  /\ range_history = h
  /\ median_index = 0
  /\ range_readings = 0
  /\ range_ret = FALSE
  /\ range_consumed = FALSE
  /\ timeout_raised = FALSE
  /\ fault_arg = 0
  /\ fault_ops = 0
  /\ range_last_op = "RangeUtil"
  /\ range_pre = [state |-> RANGE_SENSOR_UNINITIALIZED, time |-> 0,
                  history |-> h, median |-> 0, raised |-> FALSE, faults |-> 0]

\* the history array of an object in static storage
ZeroHistory == [i \in 0..(HISTORY_SIZE - 1) |-> 0]

(***************************************************************************)
(* Construction.  The IO expander is initialised before the column objects *)
(* are used; its init-failure bit is either set or not from then on.  The  *)
(* constructor ends with stop_flows(); the pins are LOW at that point.     *)
(***************************************************************************)
BootFaults == {0, Pow2(FAULT_SX1509_IO_EXPANDER_INIT_FAIL)}

\* field initialisers and constructor of ColumnManager
ColumnConstructed ==
  /\ \E lim \in ElevationLimits :
       /\ elevation_lower_limit = lim[1]
       /\ elevation_upper_limit = lim[2]
  /\ setpoint_mm = InitialSetpointMM
  /\ elevation_mm = InitialElevationMM
  /\ regulator_enable = FALSE
  /\ state = COLUMN_IDLE
  /\ time_in_current_state = 0
  /\ manual_drain_period = InitialManualPeriod
  /\ manual_fill_period = InitialManualPeriod
  /\ request_manual_fill = FALSE
  /\ request_manual_drain = FALSE
  /\ control_error_state = CONTROL_ERROR_DEADBAND
  /\ feed_valve = FALSE
  /\ drain_valve = FALSE
  /\ busy = FALSE
  /\ update_setpoint_arg = InitialSetpointMM
  /\ last_op = "ColumnManager"
  /\ pre = [state |-> COLUMN_IDLE, time |-> 0,
            request_manual_fill |-> FALSE, request_manual_drain |-> FALSE,
            feed_valve |-> FALSE, drain_valve |-> FALSE]

Init ==
  /\ system_faults \in BootFaults
  /\ ColumnConstructed
  /\ TankConstructed
  /\ RangeConstructed(1, ZeroHistory)

Next ==
  \/ \E e \in ElevationInputs, s \in SetpointInputs : Update(e, s)
  \/ \E enable \in BOOLEAN : Set_Regulator_Enable(enable)
  \/ \E period \in ManualPeriods : Manual_Drain(period)
  \/ \E period \in ManualPeriods : Manual_Fill(period)
  \/ \E dt \in TickSteps : Tick(dt)

Spec == Init /\ [][Next]_vars

(***************************************************************************)
(* The TankManager on its own: the column is left as constructed.          *)
(***************************************************************************)
TankInit ==
  /\ system_faults = 0
  /\ ColumnConstructed
  /\ TankConstructed
  /\ RangeConstructed(1, ZeroHistory)

TankNext ==
  \/ \E high \in BOOLEAN, low \in BOOLEAN : Tank_Update(high, low)
  \/ \E enable \in BOOLEAN : Tank_Set_Regulator_Enable(enable)
  \/ \E period \in TankManualPeriods : Tank_Manual_Fill(period)
  \/ \E dt \in TankTickSteps : Tank_Tick(dt)

TankSpec == TankInit /\ [][TankNext]_vars

(***************************************************************************)
(* The ColumnManager of column 1 after a boot at which the Startup of its  *)
(* range sensor has failed.                                                *)
(***************************************************************************)
\* the RangeUtil of sensor num as a failed Startup leaves it
StartupFailed(num) ==
  /\ sensor_num = num
  /\ sensor_state = RANGE_SENSOR_INIT_ERROR
  /\ time_since_last_read_msec = 0
  /\ range_history = ZeroHistory
  /\ median_index = 0
  /\ range_readings = 0
  /\ range_ret = FALSE
  /\ range_consumed = FALSE
  /\ timeout_raised = FALSE
  /\ fault_arg = 0
  /\ fault_ops = 0
  /\ range_last_op = "Startup"
  /\ range_pre = [state |-> RANGE_SENSOR_UNINITIALIZED, time |-> 0,
                  history |-> ZeroHistory, median |-> 0, raised |-> FALSE,
                  faults |-> 0]

SensorFailInit ==
  /\ system_faults = FaultSetIn(0, InitFailFault(1))
  /\ ColumnConstructed
  /\ TankConstructed
  /\ StartupFailed(1)

SensorFailSpec == SensorFailInit /\ [][Next]_vars

(***************************************************************************)
(* The fault macros on their own.                                          *)
(***************************************************************************)
FaultInit ==
  /\ system_faults \in FaultBitmaps
  /\ ColumnConstructed
  /\ TankConstructed
  /\ RangeConstructed(1, ZeroHistory)

FaultNext ==
  \/ \E x \in FaultBits : FAULT_SET(x)
  \/ \E x \in FaultBits : FAULT_CLEAR(x)

FaultSpec == FaultInit /\ [][FaultNext]_vars

(***************************************************************************)
(* The RangeUtil on its own, with an operator who may clear its faults.    *)
(***************************************************************************)
RangeInit ==
  /\ system_faults = 0
  /\ ColumnConstructed
  /\ TankConstructed
  /\ \E num \in SensorNums, h \in UninitHistories : RangeConstructed(num, h)

RangeNext ==
  \/ \E ok \in BOOLEAN : Range_Startup(ok)
  \/ \E ready \in BOOLEAN, reading \in Readings : Range_Update(ready, reading)
  \/ Range_Tick(RangeTick)
  \/ \E x \in {InitFailFault(sensor_num), TimeoutFault(sensor_num)} : FAULT_CLEAR(x)

RangeSpec == RangeInit /\ [][RangeNext]_vars

RangeTypeOK ==
  /\ sensor_state \in RANGE_SENSOR_STATE_T
  /\ sensor_num \in SensorNums
  /\ time_since_last_read_msec \in 0..RangeMaxTime
  /\ range_history \in [0..(HISTORY_SIZE - 1) -> 0..UINT16_MAX]
  /\ median_index \in 0..(HISTORY_SIZE - 1)
  /\ range_readings \in 0..HISTORY_SIZE
  /\ range_ret \in BOOLEAN

TankTypeOK ==
  /\ tank_state \in TANK_STATE_TYPE_T
  /\ tank_above_high \in BOOLEAN
  /\ tank_above_low \in BOOLEAN
  /\ pump_active \in BOOLEAN
  /\ tank_enable \in BOOLEAN
  /\ tank_request_manual_fill \in BOOLEAN
  /\ tank_time_in_current_state \in 0..TankMaxTime
  /\ tank_time_since_last_update \in 0..TankMaxTime
  /\ tank_time_since_last_update <= tank_time_in_current_state
  /\ tank_ret \in BOOLEAN

TypeOK ==
  /\ system_faults \in 0..(Pow2(FAULT_MAX_INDEX) - 1)
  /\ setpoint_mm \in 0..65535
  /\ elevation_mm \in 0..65535
  /\ regulator_enable \in BOOLEAN
  /\ state \in COLUMN_STATE_TYPE_T
  /\ time_in_current_state \in 0..MaxTime
  /\ request_manual_fill \in BOOLEAN
  /\ request_manual_drain \in BOOLEAN
  /\ control_error_state \in CONTROL_ERROR_STATE_TYPE_T
  /\ feed_valve \in BOOLEAN
  /\ drain_valve \in BOOLEAN
  /\ busy \in BOOLEAN
  /\ update_setpoint_arg \in 0..65535

(***************************************************************************)
(* Properties of ColumnManager                                             *)
(***************************************************************************)
AfterUpdate == last_op = "Update"

NoManualRequest == ~pre.request_manual_fill /\ ~pre.request_manual_drain

BothValvesClosed == ~feed_valve /\ ~drain_valve

IOExpanderFault == FAULT_ACTIVE(FAULT_SX1509_IO_EXPANDER_INIT_FAIL)

\* C1: the feed valve output and the drain valve output are never both HIGH,
\* in every reachable state and under every interleaving of Update,
\* Manual_Fill, Manual_Drain, Set_Regulator_Enable and the inputs.
C1_NoSimultaneousActuation == ~(feed_valve /\ drain_valve)

\* C1 witness: an Update that opened the feed valve while the drain valve was
\* open before it.
C1_Witness ==
  /\ AfterUpdate
  /\ pre.drain_valve
  /\ feed_valve
  /\ ~drain_valve

\* C2 (as stated): an Update in FillActive (DrainActive), enabled, with the
\* control error still Positive (Negative) and time-in-state at or above the
\* maximum period, ends in ErrorState with both valves closed and busy=false.
C2_TimeoutStopsActuators ==
  (AfterUpdate /\ NoManualRequest /\ regulator_enable) =>
    /\ (/\ pre.state = COLUMN_FILL_ACTIVE
        /\ control_error_state = CONTROL_ERROR_POSITIVE
        /\ pre.time >= max_column_fill_period)
         => (state = COLUMN_ERROR_STATE /\ BothValvesClosed /\ ~busy)
    /\ (/\ pre.state = COLUMN_DRAIN_ACTIVE
        /\ control_error_state = CONTROL_ERROR_NEGATIVE
        /\ pre.time >= max_column_drain_period)
         => (state = COLUMN_ERROR_STATE /\ BothValvesClosed /\ ~busy)

\* every bit of SYSTEM_FAULT_T that reports a timeout
TimeoutFaults ==
  {FAULT_VL53L1X_SENSOR_1_TIMEOUT, FAULT_VL53L1X_SENSOR_2_TIMEOUT,
   FAULT_VL53L1X_SENSOR_3_TIMEOUT, FAULT_VL53L1X_UNKNOWN_TIMEOUT,
   FAULT_TANK_FILL_TIMEOUT}

\* C3 (as stated): when an Update enters ErrorState from an active fill or
\* drain, a timeout fault bit is active in system_faults when it returns.
C3_TimeoutFaultRegistered ==
  (/\ AfterUpdate
   /\ state = COLUMN_ERROR_STATE
   /\ pre.state \in {COLUMN_FILL_ACTIVE, COLUMN_DRAIN_ACTIVE})
    => \E b \in TimeoutFaults : FAULT_ACTIVE(b)

\* C4 (as stated): an Update in ErrorState with no manual request leaves the
\* state ErrorState, both valves closed and returns busy=false.
C4_ErrorStateTerminal ==
  (AfterUpdate /\ NoManualRequest /\ pre.state = COLUMN_ERROR_STATE)
    => (state = COLUMN_ERROR_STATE /\ BothValvesClosed /\ ~busy)

C6_SettleDwell ==
  (AfterUpdate /\ NoManualRequest) =>
    /\ (pre.state = COLUMN_FILL_SETTLE /\ pre.time < fill_dwell_period)
         => (state = COLUMN_FILL_SETTLE /\ BothValvesClosed)
    /\ (pre.state = COLUMN_FILL_SETTLE /\ pre.time >= fill_dwell_period)
         => state = COLUMN_IDLE
    /\ (pre.state = COLUMN_DRAIN_SETTLE /\ pre.time < drain_dwell_period)
         => (state = COLUMN_DRAIN_SETTLE /\ BothValvesClosed)
    /\ (pre.state = COLUMN_DRAIN_SETTLE /\ pre.time >= drain_dwell_period)
         => state = COLUMN_IDLE

\* C7 (as stated): an Update with the regulator disabled and no manual request
\* never ends in FillActive or DrainActive; from an active state it goes to
\* the Settle state, and from Idle it stays in Idle with both valves closed.
C7_DisabledNeverActuates ==
  (AfterUpdate /\ NoManualRequest /\ ~regulator_enable) =>
    /\ state \notin {COLUMN_FILL_ACTIVE, COLUMN_DRAIN_ACTIVE}
    /\ pre.state = COLUMN_FILL_ACTIVE => state = COLUMN_FILL_SETTLE
    /\ pre.state = COLUMN_DRAIN_ACTIVE => state = COLUMN_DRAIN_SETTLE
    /\ pre.state = COLUMN_IDLE => (state = COLUMN_IDLE /\ BothValvesClosed)

\* C8 (as stated): the Update that goes from FillActive to FillSettle or from
\* DrainActive to DrainSettle returns with both valves closed.
C8_SettleEntryClosesValves ==
  (/\ AfterUpdate
   /\ \/ pre.state = COLUMN_FILL_ACTIVE /\ state = COLUMN_FILL_SETTLE
      \/ pre.state = COLUMN_DRAIN_ACTIVE /\ state = COLUMN_DRAIN_SETTLE)
    => BothValvesClosed

\* C9 (as stated): Update returns busy=true if and only if a valve output is
\* HIGH when it returns.
C9_BusyIffValveOpen ==
  AfterUpdate => (busy <=> (feed_valve \/ drain_valve))

\* C10 (as stated): after Update, outside the deadband, the control error is
\* Positive exactly when elevation < setpoint and Negative exactly when
\* elevation > setpoint.
C10_ErrorSign ==
  (AfterUpdate /\ control_error_state # CONTROL_ERROR_DEADBAND) =>
    /\ control_error_state = CONTROL_ERROR_POSITIVE <=> elevation_mm < setpoint_mm
    /\ control_error_state = CONTROL_ERROR_NEGATIVE <=> elevation_mm > setpoint_mm

\* range of int16_t
INT16_MAX == 32767
INT16_MIN == -32768

\* C10 (amended): after Update, for a reading outside the deadband whose
\* difference from the clamped setpoint fits int16_t, the control error is
\* Positive exactly when elevation > setpoint and Negative exactly when
\* elevation < setpoint; a difference that does not fit int16_t is
\* classified by its value 65536 lower (above the range) or higher (below).
C10_ErrorSignAmended ==
  AfterUpdate =>
    LET d == elevation_mm - setpoint_mm
        w == IF d > INT16_MAX THEN d - 65536
             ELSE IF d < INT16_MIN THEN d + 65536
             ELSE d
    IN  (w > setpoint_deadband \/ w < -setpoint_deadband) =>
          /\ control_error_state = CONTROL_ERROR_POSITIVE <=> w > 0
          /\ control_error_state = CONTROL_ERROR_NEGATIVE <=> w < 0

\* C10 witness: a reading above the setpoint and outside the deadband.
C10_Witness ==
  /\ AfterUpdate
  /\ elevation_mm - setpoint_mm > setpoint_deadband
  /\ elevation_mm - setpoint_mm <= INT16_MAX
  /\ control_error_state = CONTROL_ERROR_POSITIVE

\* control error of a difference d evaluated in exact integer arithmetic
ExactControlError(d) ==
  IF d <= setpoint_deadband /\ d >= -setpoint_deadband THEN CONTROL_ERROR_DEADBAND
  ELSE IF d > 0 THEN CONTROL_ERROR_POSITIVE
  ELSE CONTROL_ERROR_NEGATIVE

\* C11 (as stated): after Update the control error is Deadband if and only if
\* |elevation - clamped setpoint| <= deadband in exact integer arithmetic, and
\* the 16-bit signed difference never changes the classification.
C11_ExactClassification ==
  AfterUpdate =>
    /\ control_error_state = CONTROL_ERROR_DEADBAND
         <=> ExactControlError(elevation_mm - setpoint_mm) = CONTROL_ERROR_DEADBAND
    /\ control_error_state = ExactControlError(elevation_mm - setpoint_mm)

\* C12: after every Update the stored setpoint lies within the elevation
\* limits, equals the argument when the argument is within them, is the nearer
\* limit otherwise, and the control error is the one of the reading against
\* the stored (clamped) setpoint.
C12_SetpointClamped ==
  (AfterUpdate /\ elevation_lower_limit <= elevation_upper_limit) =>
    /\ setpoint_mm >= elevation_lower_limit
    /\ setpoint_mm <= elevation_upper_limit
    /\ (/\ update_setpoint_arg >= elevation_lower_limit
        /\ update_setpoint_arg <= elevation_upper_limit)
         => setpoint_mm = update_setpoint_arg
    /\ (/\ elevation_mm - setpoint_mm <= INT16_MAX
        /\ elevation_mm - setpoint_mm >= INT16_MIN)
         => control_error_state = ExactControlError(elevation_mm - setpoint_mm)

\* C12 witness: a setpoint above the upper limit was clamped, and the reading
\* is in the deadband of the clamped setpoint but not of the argument.
C12_Witness ==
  /\ AfterUpdate
  /\ update_setpoint_arg > elevation_upper_limit
  /\ setpoint_mm = elevation_upper_limit
  /\ control_error_state = CONTROL_ERROR_DEADBAND
  /\ ExactControlError(elevation_mm - update_setpoint_arg) # CONTROL_ERROR_DEADBAND

(***************************************************************************)
(* TankManager properties, checked under TankSpec                          *)
(***************************************************************************)
\* the operation that ran last was TankManager::Update
TankAfterUpdate == tank_last_op = "Update"

\* ... and it was not cut short by the rate limiter
TankStep == TankAfterUpdate /\ ~RateLimited(tank_pre.since)

\* the two level switches read by the last Update contradict each other
LevelContradiction == tank_above_high /\ ~tank_above_low

\* C13: a state-machine step in FillActive (enabled) with time-in-state at or
\* above MAX_PUMP_FILL_TIME_MSEC and the high switch not above-high moves the
\* tank to FillTimeoutFault; a step in FillTimeoutFault stays there and leaves
\* the pump off.
C13_FillTimeoutTransition ==
  TankStep =>
    /\ (/\ tank_pre.state = TANK_FILL_ACTIVE
        /\ tank_enable
        /\ ~tank_above_high
        /\ tank_pre.time >= MAX_PUMP_FILL_TIME_MSEC)
         => tank_state = TANK_FILL_TIMEOUT_FAULT
    /\ tank_pre.state = TANK_FILL_TIMEOUT_FAULT
         => (tank_state = TANK_FILL_TIMEOUT_FAULT /\ ~pump_active)

\* C14: whenever an Update returns with the fill-timeout fault active (set by
\* this call or by an earlier one), the pump is commanded off.
C14_FillTimeoutStopsPump ==
  (TankAfterUpdate /\ FAULT_ACTIVE(FAULT_TANK_FILL_TIMEOUT)) => ~pump_active

\* C15: after every Update, rate-limited or not and in every state, the
\* tank-level-sense fault is active if the switches read above-high and
\* not-above-low; if they do not, the fault is as it was before the call.
C15_ContradictionDetection ==
  TankAfterUpdate =>
    /\ LevelContradiction => FAULT_ACTIVE(FAULT_TANK_LEVEL_SENSE_FAIL)
    /\ ~LevelContradiction
         => (FAULT_ACTIVE(FAULT_TANK_LEVEL_SENSE_FAIL)
               <=> FaultActiveIn(tank_pre.faults, FAULT_TANK_LEVEL_SENSE_FAIL))

\* C15 witness: a rate-limited Update during a fill raised the fault.
C15_Witness ==
  /\ TankAfterUpdate
  /\ RateLimited(tank_pre.since)
  /\ tank_state = TANK_FILL_ACTIVE
  /\ LevelContradiction
  /\ ~FaultActiveIn(tank_pre.faults, FAULT_TANK_LEVEL_SENSE_FAIL)
  /\ FAULT_ACTIVE(FAULT_TANK_LEVEL_SENSE_FAIL)

\* C16: an Update called when the time since the last state-machine step is
\* at most TANK_UPDATE_PERIOD_MSEC returns true and leaves state, time in
\* state, pending request and pump output unchanged.
C16_RateLimit ==
  (TankAfterUpdate /\ tank_pre.since <= TANK_UPDATE_PERIOD_MSEC) =>
    /\ tank_ret
    /\ tank_state = tank_pre.state
    /\ tank_time_in_current_state = tank_pre.time
    /\ tank_request_manual_fill = tank_pre.request
    /\ pump_active = tank_pre.pump

\* C16 amended: an Update called when the time since the last state-machine
\* step is below TANK_UPDATE_PERIOD_MSEC returns true and leaves state, time in
\* state, pending request, pump output and the time since the last step
\* unchanged; otherwise it returns false and restarts the time since the last
\* step, so two steps are at least TANK_UPDATE_PERIOD_MSEC apart.
C16_RateLimitAmended ==
  TankAfterUpdate =>
    /\ tank_pre.since < TANK_UPDATE_PERIOD_MSEC =>
         /\ tank_ret
         /\ tank_state = tank_pre.state
         /\ tank_time_in_current_state = tank_pre.time
         /\ tank_request_manual_fill = tank_pre.request
         /\ pump_active = tank_pre.pump
         /\ tank_time_since_last_update = tank_pre.since
    /\ tank_pre.since >= TANK_UPDATE_PERIOD_MSEC =>
         /\ ~tank_ret
         /\ tank_time_since_last_update = 0

\* C16 witness: an Update in Idle with a manual-fill request pending was cut
\* short 5 ms after the last step and left the request waiting.
C16_Witness ==
  /\ TankAfterUpdate
  /\ tank_pre.since > 0
  /\ tank_pre.since < TANK_UPDATE_PERIOD_MSEC
  /\ tank_ret
  /\ tank_state = TANK_IDLE
  /\ tank_request_manual_fill

C18_ManualFillPreempts ==
  TankStep =>
    /\ (tank_pre.request
        /\ tank_pre.state \in {TANK_IDLE, TANK_FILL_ACTIVE, TANK_FILL_SETTLE})
         => tank_state = TANK_MANUAL_FILL
    /\ tank_pre.state = TANK_MANUAL_FILL => pump_active

\* C18 amended: a pending manual-fill request is honored only by a step taken
\* in Idle, which clears it and enters ManualFill with time-in-state zero and
\* the pump commanded off; a step in FillActive or FillSettle leaves the
\* request pending and does not enter ManualFill; a step in ManualFill
\* commands the pump on and returns to Idle exactly when time-in-state has
\* reached the manual fill period.
C18_ManualFillFromIdle ==
  TankStep =>
    /\ (tank_pre.request /\ tank_pre.state = TANK_IDLE)
         => /\ tank_state = TANK_MANUAL_FILL
            /\ tank_time_in_current_state = 0
            /\ ~tank_request_manual_fill
            /\ ~pump_active
    /\ tank_pre.state \in {TANK_FILL_ACTIVE, TANK_FILL_SETTLE}
         => /\ tank_request_manual_fill = tank_pre.request
            /\ tank_state # TANK_MANUAL_FILL
    /\ tank_pre.state = TANK_MANUAL_FILL
         => /\ pump_active
            /\ tank_request_manual_fill = tank_pre.request
            /\ tank_state = IF tank_pre.time >= tank_manual_fill_period
                              THEN TANK_IDLE
                              ELSE TANK_MANUAL_FILL

\* C18 witness: a request made during an automatic fill was still pending
\* after the step that ended the fill.
C18_Witness ==
  /\ TankStep
  /\ tank_pre.state = TANK_FILL_ACTIVE
  /\ tank_pre.request
  /\ tank_request_manual_fill
  /\ tank_state = TANK_FILL_SETTLE

\* C19: a state-machine step taken in FillActive while the regulator is
\* disabled commands the pump off and enters FillSettle.
C19_DisableUnwindsThroughSettle ==
  (TankStep /\ tank_pre.state = TANK_FILL_ACTIVE /\ ~tank_enable) =>
    /\ ~pump_active
    /\ tank_state = TANK_FILL_SETTLE

\* C20: an Update that runs the state machine returns true exactly when the
\* pump is commanded on at return.
C20_ReturnIsBusy ==
  TankStep => (tank_ret <=> pump_active)

(***************************************************************************)
(* Properties across the sensor and the column, checked under              *)
(* SensorFailSpec                                                          *)
(***************************************************************************)
\* C21: while the init-failure fault of the column's range sensor is active,
\* every Update of the ColumnManager returns with the fill valve and the drain
\* valve commanded closed.
C21_SensorFaultBlocksValves ==
  (AfterUpdate /\ FAULT_ACTIVE(InitFailFault(sensor_num))) => BothValvesClosed

(***************************************************************************)
(* RangeUtil and fault bitmap properties, checked under RangeSpec          *)
(***************************************************************************)
\* the operation that ran last was RangeUtil::Update
AfterRangeUpdate == range_last_op = "Update"

\* the timeout fault of this sensor's identity
OwnTimeoutFault == TimeoutFault(sensor_num)

\* the init-failure fault of this sensor's identity
OwnInitFailFault == InitFailFault(sensor_num)

AnyFaultActive == system_faults # 0

\* every fault other than x is as it was before the last macro
OtherFaultsUnchanged(x) ==
  \A c \in FaultBits \ {x} :
    FAULT_ACTIVE(c) <=> FaultActiveIn(range_pre.faults, c)

\* C23: after FAULT_SET(b) fault b is active, after FAULT_CLEAR(b) it is not;
\* applying the same macro once more changes nothing; no other fault changes;
\* and the bitmap is non-zero exactly when some fault is active.
C23_FaultMacros ==
  /\ AnyFaultActive <=> (\E b \in FaultBits : FAULT_ACTIVE(b))
  /\ range_last_op = "FAULT_SET" =>
       /\ FAULT_ACTIVE(fault_arg)
       /\ FaultSetIn(system_faults, fault_arg) = system_faults
       /\ OtherFaultsUnchanged(fault_arg)
  /\ range_last_op = "FAULT_CLEAR" =>
       /\ ~FAULT_ACTIVE(fault_arg)
       /\ FaultClearIn(system_faults, fault_arg) = system_faults
       /\ OtherFaultsUnchanged(fault_arg)

\* C23 witness: FAULT_CLEAR of the highest fault number, which was active
\* among others, has been applied.
C23_Witness ==
  /\ range_last_op = "FAULT_CLEAR"
  /\ fault_arg = FAULT_MAX_INDEX - 1
  /\ FaultActiveIn(range_pre.faults, fault_arg)
  /\ AnyFaultActive

\* the middle value by numeric order of the three samples of h
MiddleValue(h) ==
  CHOOSE m \in {h[i] : i \in 0..(HISTORY_SIZE - 1)} :
    /\ Cardinality({i \in 0..(HISTORY_SIZE - 1) : h[i] <= m}) >= 2
    /\ Cardinality({i \in 0..(HISTORY_SIZE - 1) : h[i] >= m}) >= 2

\* C24: once three readings have been taken, Get_Median_Reading is the middle
\* value by numeric order of the three most recent readings.
C24_MedianOfThree ==
  range_readings = HISTORY_SIZE => Get_Median_Reading = MiddleValue(range_history)

\* C24 witness: the three most recent readings are 65535, 0, 65535 and the
\* median reported is 65535.
C24_Witness ==
  /\ range_readings = HISTORY_SIZE
  /\ range_history[0] = UINT16_MAX
  /\ range_history[1] = 0
  /\ range_history[2] = UINT16_MAX
  /\ Get_Median_Reading = UINT16_MAX

\* the timeout fault the claims expect of sensor 1, 2, 3 and of any other
ExpectedTimeoutFault ==
  IF sensor_num = 1 THEN FAULT_VL53L1X_SENSOR_1_TIMEOUT
  ELSE IF sensor_num = 2 THEN FAULT_VL53L1X_SENSOR_2_TIMEOUT
  ELSE IF sensor_num = 3 THEN FAULT_VL53L1X_SENSOR_3_TIMEOUT
  ELSE FAULT_VL53L1X_UNKNOWN_TIMEOUT

\* the init-failure fault the claims expect of sensor 1, 2, 3 and of any other
ExpectedInitFailFault ==
  IF sensor_num = 1 THEN FAULT_VL53L1X_SENSOR_1_INIT_FAIL
  ELSE IF sensor_num = 2 THEN FAULT_VL53L1X_SENSOR_2_INIT_FAIL
  ELSE IF sensor_num = 3 THEN FAULT_VL53L1X_SENSOR_3_INIT_FAIL
  ELSE FAULT_VL53L1X_UNKNOWN_INIT_FAIL

\* the last Update ran in the working state
WorkingUpdate == AfterRangeUpdate /\ range_pre.state = RANGE_SENSOR_WORKING

\* C25: an Update in the working state that consumed a reading leaves the
\* counter at zero and the fault bitmap as it was; one that found no reading
\* with the counter at or above READ_TIMEOUT_MSEC sets the timeout fault of
\* the sensor's identity and nothing else; one that found no reading with the
\* counter below the window leaves the bitmap as it was.
C25_TimeoutCheck ==
  WorkingUpdate =>
    /\ range_consumed =>
         /\ time_since_last_read_msec = 0
         /\ system_faults = range_pre.faults
    /\ (~range_consumed /\ range_pre.time >= READ_TIMEOUT_MSEC) =>
         /\ system_faults = FaultSetIn(range_pre.faults, ExpectedTimeoutFault)
         /\ FAULT_ACTIVE(ExpectedTimeoutFault)
    /\ (~range_consumed /\ range_pre.time < READ_TIMEOUT_MSEC) =>
         system_faults = range_pre.faults

\* C25 witness: a sensor with an unknown number found no reading exactly
\* READ_TIMEOUT_MSEC after the last one and raised the unknown-sensor timeout.
C25_Witness ==
  /\ WorkingUpdate
  /\ sensor_num \notin {1, 2, 3}
  /\ ~range_consumed
  /\ range_pre.time = READ_TIMEOUT_MSEC
  /\ ~FaultActiveIn(range_pre.faults, FAULT_VL53L1X_UNKNOWN_TIMEOUT)
  /\ FAULT_ACTIVE(FAULT_VL53L1X_UNKNOWN_TIMEOUT)

\* C26: once an Update has set the timeout fault in a silent period, an Update
\* in the same period that finds the fault inactive (cleared from outside)
\* does not set it again; and an Update that consumed no reading leaves an
\* active timeout fault active.
C26_TimeoutSetOnce ==
  (WorkingUpdate /\ ~range_consumed) =>
    /\ (range_pre.raised /\ ~FaultActiveIn(range_pre.faults, ExpectedTimeoutFault))
         => ~FAULT_ACTIVE(ExpectedTimeoutFault)
    /\ FaultActiveIn(range_pre.faults, ExpectedTimeoutFault)
         => FAULT_ACTIVE(ExpectedTimeoutFault)

\* C26 amended: every Update in the working state that finds no reading with
\* the counter at or above READ_TIMEOUT_MSEC leaves the timeout fault active,
\* also when the fault was set earlier in the same silent period and cleared
\* from outside since; and no Update, with or without a fresh reading, makes
\* an active timeout fault inactive.
C26_TimeoutSetEveryUpdate ==
  AfterRangeUpdate =>
    /\ (/\ range_pre.state = RANGE_SENSOR_WORKING
        /\ ~range_consumed
        /\ range_pre.time >= READ_TIMEOUT_MSEC)
         => FAULT_ACTIVE(ExpectedTimeoutFault)
    /\ FaultActiveIn(range_pre.faults, ExpectedTimeoutFault)
         => FAULT_ACTIVE(ExpectedTimeoutFault)

\* C26 witness: the timeout fault, set earlier in this silent period and
\* cleared from outside, was set again by the next Update.
C26_Witness ==
  /\ WorkingUpdate
  /\ ~range_consumed
  /\ range_pre.raised
  /\ ~FaultActiveIn(range_pre.faults, ExpectedTimeoutFault)
  /\ FAULT_ACTIVE(ExpectedTimeoutFault)

\* C27: a Startup that fails returns false, leaves the sensor in
\* RANGE_SENSOR_INIT_ERROR and sets the init-failure fault of the sensor's
\* identity and nothing else; an Update of a sensor that is in
\* RANGE_SENSOR_INIT_ERROR or RANGE_SENSOR_UNINITIALIZED reads nothing and
\* leaves state, history, median index, counter and fault bitmap as they were.
C27_InitFailureIsPermanent ==
  /\ (range_last_op = "Startup" /\ ~range_ret) =>
       /\ sensor_state = RANGE_SENSOR_INIT_ERROR
       /\ system_faults = FaultSetIn(range_pre.faults, ExpectedInitFailFault)
       /\ FAULT_ACTIVE(ExpectedInitFailFault)
  /\ (/\ AfterRangeUpdate
      /\ range_pre.state \in {RANGE_SENSOR_INIT_ERROR, RANGE_SENSOR_UNINITIALIZED})
       => /\ sensor_state = range_pre.state
          /\ range_history = range_pre.history
          /\ median_index = range_pre.median
          /\ time_since_last_read_msec = range_pre.time
          /\ ~range_consumed
          /\ system_faults = range_pre.faults

\* C27 witness: sensor 2, whose Startup failed, was updated after the timeout
\* window had passed; only its init-failure fault is active.
C27_Witness ==
  /\ AfterRangeUpdate
  /\ sensor_num = 2
  /\ range_pre.state = RANGE_SENSOR_INIT_ERROR
  /\ range_pre.time >= READ_TIMEOUT_MSEC
  /\ system_faults = Pow2(FAULT_VL53L1X_SENSOR_2_INIT_FAIL)

(***************************************************************************)
(* ColumnManager manual requests and time in state, checked under Spec     *)
(***************************************************************************)
\* the last Update started a manual fill: the state is ManualFill with the
\* timer at zero, or, for a period of zero, the fill ended in the same call
ManualFillHonored ==
  /\ busy
  /\ time_in_current_state = 0
  /\ state = IF manual_fill_period > 0 THEN COLUMN_MANUAL_FILL ELSE COLUMN_IDLE

\* the same for a manual drain
ManualDrainHonored ==
  /\ busy
  /\ time_in_current_state = 0
  /\ state = IF manual_drain_period > 0 THEN COLUMN_MANUAL_DRAIN ELSE COLUMN_IDLE

\* an Update without a request neither enters a manual state nor restarts
\* its timer
NoManualRestart ==
  NoManualRequest =>
    /\ state = COLUMN_MANUAL_FILL
         => (pre.state = COLUMN_MANUAL_FILL /\ time_in_current_state = pre.time)
    /\ state = COLUMN_MANUAL_DRAIN
         => (pre.state = COLUMN_MANUAL_DRAIN /\ time_in_current_state = pre.time)

\* C28: every Update leaves no request pending; it starts a manual fill if a
\* fill request was pending and a manual drain if a drain request was pending;
\* without a pending request it neither enters a manual state nor restarts the
\* manual period.
C28_ManualOneShot ==
  AfterUpdate =>
    /\ ~request_manual_fill /\ ~request_manual_drain
    /\ pre.request_manual_fill => ManualFillHonored
    /\ pre.request_manual_drain => ManualDrainHonored
    /\ NoManualRestart

\* C28 amended: as C28, except that a fill request pending together with a
\* drain request is cleared without being honored: the Update starts the
\* manual drain only.
C28_ManualOneShotDrainWins ==
  AfterUpdate =>
    /\ ~request_manual_fill /\ ~request_manual_drain
    /\ (pre.request_manual_fill /\ ~pre.request_manual_drain) => ManualFillHonored
    /\ pre.request_manual_drain
         => (ManualDrainHonored /\ state # COLUMN_MANUAL_FILL)
    /\ NoManualRestart

\* C28 witness: a fill and a drain request were pending; the Update started a
\* manual drain and cleared both.
C28_Witness ==
  /\ AfterUpdate
  /\ pre.request_manual_fill
  /\ pre.request_manual_drain
  /\ state = COLUMN_MANUAL_DRAIN
  /\ ~request_manual_fill
  /\ ~request_manual_drain

\* C29: an Update without a new request in ManualFill (ManualDrain) leaves the
\* fill (drain) valve open, returns busy and stays in the state while
\* time-in-state is below the requested duration, and moves to Idle otherwise;
\* the Update that follows in Idle returns with both valves closed.
C29_ManualPeriod ==
  (AfterUpdate /\ NoManualRequest) =>
    /\ pre.state = COLUMN_MANUAL_FILL =>
         IF pre.time < manual_fill_period
           THEN feed_valve /\ busy /\ state = COLUMN_MANUAL_FILL
           ELSE state = COLUMN_IDLE
    /\ pre.state = COLUMN_MANUAL_DRAIN =>
         IF pre.time < manual_drain_period
           THEN drain_valve /\ busy /\ state = COLUMN_MANUAL_DRAIN
           ELSE state = COLUMN_IDLE
    /\ pre.state = COLUMN_IDLE => BothValvesClosed

\* C30: an Update that changes the state leaves time-in-state at zero; an
\* Update without a manual request that keeps the state leaves time-in-state
\* as it was.
C30_TimerResetOnTransition ==
  AfterUpdate =>
    /\ state # pre.state => time_in_current_state = 0
    /\ (state = pre.state /\ NoManualRequest) => time_in_current_state = pre.time

(***************************************************************************)
(* Range filter history, checked under RangeSpec                           *)
(***************************************************************************)
\* C31: the history holds three samples, all zero until the first reading has
\* been consumed; an Update that consumes a reading moves every sample one
\* slot towards the oldest, drops the oldest and leaves the reading as the
\* newest.
C31_HistoryContract ==
  /\ DOMAIN range_history = 0..2
  /\ range_readings = 0 => \A i \in 0..2 : range_history[i] = 0
  /\ (AfterRangeUpdate /\ range_consumed) =>
       /\ range_history[1] = range_pre.history[0]
       /\ range_history[2] = range_pre.history[1]
       /\ Get_Newest_Reading = range_history[0]

(***************************************************************************)
(* ColumnManager: manual requests against ErrorState, checked under Spec   *)
(***************************************************************************)
\* the states of a manual episode
ManualStates == {COLUMN_MANUAL_FILL, COLUMN_MANUAL_DRAIN}

\* C32: an Update in ErrorState with a manual drain (fill) request pending
\* starts the manual drain (fill) and leaves the drain (fill) valve open; an
\* Update without a request in a manual state stays there or moves to Idle,
\* never back to ErrorState; and the Update in Idle that follows starts an
\* automatic fill or drain when the regulator is enabled and the control
\* error calls for it.
C32_ManualPreemptsError ==
  AfterUpdate =>
    /\ (pre.state = COLUMN_ERROR_STATE /\ pre.request_manual_drain)
         => (ManualDrainHonored /\ drain_valve)
    /\ (/\ pre.state = COLUMN_ERROR_STATE
        /\ pre.request_manual_fill
        /\ ~pre.request_manual_drain)
         => (ManualFillHonored /\ feed_valve)
    /\ (pre.state \in ManualStates /\ NoManualRequest)
         => state \in {pre.state, COLUMN_IDLE}
    /\ (/\ pre.state = COLUMN_IDLE
        /\ NoManualRequest
        /\ regulator_enable
        /\ control_error_state # CONTROL_ERROR_DEADBAND)
         => state \in {COLUMN_FILL_ACTIVE, COLUMN_DRAIN_ACTIVE}

(***************************************************************************)
(* ColumnManager in Idle, checked under Spec                               *)
(***************************************************************************)
\* C33: a constructed ColumnManager is in Idle, disabled, with both valves
\* closed.  An Update whose state machine runs in Idle (no manual request)
\* returns with both valves closed and busy=false; it moves to FillActive
\* exactly when the regulator is enabled and the control error is Positive, to
\* DrainActive exactly when it is enabled and the error is Negative, and stays
\* in Idle otherwise.  The Update that follows and stays in FillActive
\* (DrainActive) leaves the fill (drain) valve open.
C33_IdleBehaviour ==
  /\ last_op = "ColumnManager" =>
       (state = COLUMN_IDLE /\ ~regulator_enable /\ BothValvesClosed)
  /\ (AfterUpdate /\ NoManualRequest /\ pre.state = COLUMN_IDLE) =>
       /\ BothValvesClosed
       /\ ~busy
       /\ state = COLUMN_FILL_ACTIVE
            <=> (regulator_enable /\ control_error_state = CONTROL_ERROR_POSITIVE)
       /\ state = COLUMN_DRAIN_ACTIVE
            <=> (regulator_enable /\ control_error_state = CONTROL_ERROR_NEGATIVE)
       /\ state \in {COLUMN_IDLE, COLUMN_FILL_ACTIVE, COLUMN_DRAIN_ACTIVE}
  /\ (AfterUpdate /\ NoManualRequest) =>
       /\ (pre.state = COLUMN_FILL_ACTIVE /\ state = COLUMN_FILL_ACTIVE)
            => feed_valve
       /\ (pre.state = COLUMN_DRAIN_ACTIVE /\ state = COLUMN_DRAIN_ACTIVE)
            => drain_valve

(***************************************************************************)
(* TankManager settle period and pump command, checked under TankSpec      *)
(***************************************************************************)
\* C34: a step in FillActive of an enabled tank with the high switch wet
\* ends in FillSettle with the pump off and time-in-state at zero; a step in
\* FillSettle of an enabled tank leaves the pump off, keeps the state and the
\* timer while time-in-state is below the settle period and moves to Idle
\* otherwise; no other operation leaves FillSettle or starts the pump there;
\* and a step ends in FillActive only from FillActive or Idle.
C34_SettleBeforeRefill ==
  /\ tank_state = TANK_FILL_SETTLE => ~pump_active
  /\ (TankStep /\ tank_enable) =>
       /\ (tank_pre.state = TANK_FILL_ACTIVE /\ tank_above_high) =>
            /\ tank_state = TANK_FILL_SETTLE
            /\ tank_time_in_current_state = 0
       /\ tank_pre.state = TANK_FILL_SETTLE =>
            IF tank_pre.time >= post_pump_settle_period
              THEN tank_state = TANK_IDLE
              ELSE /\ tank_state = TANK_FILL_SETTLE
                   /\ tank_time_in_current_state = tank_pre.time
  /\ (tank_pre.state = TANK_FILL_SETTLE /\ ~TankStep
        /\ tank_last_op # "TankManager")
       => tank_state = TANK_FILL_SETTLE
  /\ (TankStep /\ tank_state = TANK_FILL_ACTIVE)
       => tank_pre.state \in {TANK_FILL_ACTIVE, TANK_IDLE}

\* C34 witness: a step in FillSettle of an enabled tank, taken after some time
\* but before the settle period has elapsed, that stays in FillSettle.
C34_Witness ==
  /\ TankStep
  /\ tank_enable
  /\ tank_pre.state = TANK_FILL_SETTLE
  /\ tank_pre.time > 0
  /\ tank_pre.time < post_pump_settle_period
  /\ tank_state = TANK_FILL_SETTLE
  /\ ~pump_active

(***************************************************************************)
(* ColumnManager valve writes under the IO-expander fault, checked under   *)
(* Spec                                                                    *)
(***************************************************************************)
\* C35: while the IO-expander init-failure fault is active, every
\* ColumnManager operation leaves both valve outputs as they were.
C35_NoValveWriteUnderIOFault ==
  (IOExpanderFault /\ last_op # "ColumnManager") =>
    /\ feed_valve = pre.feed_valve
    /\ drain_valve = pre.drain_valve

(***************************************************************************)
(* TankManager pump command against the state, checked under TankSpec      *)
(***************************************************************************)
\* C36: when an Update returns, the pump is on only if the state is FillActive
\* or ManualFill.
C36_PumpOnlyWhileFilling ==
  TankAfterUpdate =>
    (pump_active => tank_state \in {TANK_FILL_ACTIVE, TANK_MANUAL_FILL})

(***************************************************************************)
(* ColumnManager with both manual requests pending, checked under Spec     *)
(***************************************************************************)
\* C37: an Update with a manual-fill and a manual-drain request pending ends
\* in ManualDrain with the drain valve open, the fill valve closed and both
\* requests cleared; and no later Update without a new request enters
\* ManualFill.
C37_DrainWins ==
  AfterUpdate =>
    /\ (pre.request_manual_fill /\ pre.request_manual_drain) =>
         /\ state = COLUMN_MANUAL_DRAIN
         /\ drain_valve
         /\ ~feed_valve
         /\ ~request_manual_fill
         /\ ~request_manual_drain
    /\ NoManualRequest =>
         (state = COLUMN_MANUAL_FILL => pre.state = COLUMN_MANUAL_FILL)

(***************************************************************************)
(* TankManager manual-fill request latch, checked under TankSpec           *)
(***************************************************************************)
\* C38: a rate-limited Update, the passing of time and Set_Regulator_Enable
\* leave the manual-fill request and the state as they were; a step taken
\* outside Idle leaves the request as it was and does not enter ManualFill; a
\* step taken in Idle with the request pending clears it and enters ManualFill
\* with time-in-state zero, whatever the enable flag and the level switches;
\* a step taken in Idle without a request does not enter ManualFill.
C38_ManualRequestLatched ==
  /\ tank_last_op = "Manual_Fill" => tank_request_manual_fill
  /\ (tank_last_op \in {"Tick", "Set_Regulator_Enable"}
        \/ (TankAfterUpdate /\ ~TankStep)) =>
       /\ tank_request_manual_fill = tank_pre.request
       /\ tank_state = tank_pre.state
  /\ (TankStep /\ tank_pre.state # TANK_IDLE) =>
       /\ tank_request_manual_fill = tank_pre.request
       /\ tank_state = TANK_MANUAL_FILL => tank_pre.state = TANK_MANUAL_FILL
  /\ (TankStep /\ tank_pre.state = TANK_IDLE) =>
       /\ ~tank_request_manual_fill
       /\ tank_state = TANK_MANUAL_FILL <=> tank_pre.request
       /\ tank_pre.request => tank_time_in_current_state = 0

\* C38 witness: a step in Idle of a disabled tank with the high switch wet
\* consumed a pending request and entered ManualFill.
C38_Witness ==
  /\ TankStep
  /\ tank_pre.state = TANK_IDLE
  /\ tank_pre.request
  /\ ~tank_enable
  /\ tank_above_high
  /\ tank_state = TANK_MANUAL_FILL
  /\ ~tank_request_manual_fill

(***************************************************************************)
(* ColumnManager progress.  The main loop calls Update again and again and *)
(* the elapsedMillis counter keeps counting; every comparison of Update is *)
(* against a period of at most max_column_fill_period, so the counter is   *)
(* followed up to MaxTime and held there.                                  *)
(***************************************************************************)
LiveTick(dt) ==
  /\ time_in_current_state < MaxTime
  /\ dt = TickShort => time_in_current_state < FineWindow
  /\ time_in_current_state' =
       IF time_in_current_state + dt <= MaxTime
         THEN time_in_current_state + dt
         ELSE MaxTime
  /\ last_op' = "Tick"
  /\ pre' = Snapshot
  /\ UNCHANGED <<system_faults, elevation_lower_limit, elevation_upper_limit,
                 setpoint_mm, elevation_mm, regulator_enable, state,
                 manual_drain_period, manual_fill_period, request_manual_fill,
                 request_manual_drain, control_error_state, feed_valve,
                 drain_valve, busy, update_setpoint_arg>>
  /\ UNCHANGED <<tank_vars, range_vars>>

\* elevations handed to Update: below, inside and above the deadband around
\* the setpoint, which is left at its initial value
LiveElevations ==
  {InitialSetpointMM - setpoint_deadband - 1, InitialSetpointMM,
   InitialSetpointMM + setpoint_deadband + 1}

LiveNext ==
  \/ \E e \in LiveElevations : Update(e, InitialSetpointMM)
  \/ \E enable \in BOOLEAN : Set_Regulator_Enable(enable)
  \/ Manual_Drain(InitialManualPeriod)
  \/ Manual_Fill(InitialManualPeriod)
  \/ LiveTick(TickLong)

\* Update is called for ever and time passes for ever
LiveFairness ==
  /\ WF_vars(\E e \in LiveElevations : Update(e, InitialSetpointMM))
  /\ WF_vars(LiveTick(TickLong))

LiveSpec == Init /\ [][LiveNext]_vars /\ LiveFairness

\* no manual request is pending
NoRequestPending == ~request_manual_fill /\ ~request_manual_drain

\* C39: from any moment after which no manual request is ever pending, a
\* column in FillSettle, DrainSettle, ManualFill or ManualDrain is eventually
\* in Idle, a column in FillActive is eventually in FillSettle or ErrorState,
\* and a column in DrainActive is eventually in DrainSettle or ErrorState.
C39_NoStateHeldForever ==
  /\ ((state \in {COLUMN_FILL_SETTLE, COLUMN_DRAIN_SETTLE,
                  COLUMN_MANUAL_FILL, COLUMN_MANUAL_DRAIN}
         /\ []NoRequestPending)
        ~> (state = COLUMN_IDLE))
  /\ ((state = COLUMN_FILL_ACTIVE /\ []NoRequestPending)
        ~> (state \in {COLUMN_FILL_SETTLE, COLUMN_ERROR_STATE}))
  /\ ((state = COLUMN_DRAIN_ACTIVE /\ []NoRequestPending)
        ~> (state \in {COLUMN_DRAIN_SETTLE, COLUMN_ERROR_STATE}))

\* C39 witness: an Update without a manual request found the column still
\* draining at the maximum drain period and left DrainActive for ErrorState.
C39_Witness ==
  /\ AfterUpdate
  /\ NoManualRequest
  /\ pre.state = COLUMN_DRAIN_ACTIVE
  /\ pre.time >= max_column_drain_period
  /\ state = COLUMN_ERROR_STATE

(***************************************************************************)
(* The RangeUtil when time passes between its construction and Startup     *)
(* and none after: Startup is called some time after the object has been   *)
(* constructed, and the Updates follow at once.                            *)
(***************************************************************************)
Range_Tick_BeforeStartup ==
  /\ sensor_state = RANGE_SENSOR_UNINITIALIZED
  /\ Range_Tick(RangeTick)

DelayedStartupNext ==
  \/ \E ok \in BOOLEAN : Range_Startup(ok)
  \/ \E ready \in BOOLEAN, reading \in Readings : Range_Update(ready, reading)
  \/ Range_Tick_BeforeStartup

DelayedStartupSpec == RangeInit /\ [][DelayedStartupNext]_vars

\* C40: no time passes after Startup in this specification, so less than
\* READ_TIMEOUT_MSEC has elapsed since Startup completed whenever Update
\* runs: an Update of a working sensor never leaves the timeout fault active.
C40_NoTimeoutFromTimeBeforeStartup ==
  (AfterRangeUpdate /\ range_pre.state = RANGE_SENSOR_WORKING) =>
    ~FAULT_ACTIVE(ExpectedTimeoutFault)

====
